---- MODULE Spec2Model ----
(***************************************************************************)
(* A model of the PDF summarizer: the upload page (Index), the summarizer  *)
(* component (PDFSummarizer: initializePDF, togglePageSelection,           *)
(* summarizePDF, handleApiError), the settings dialog (ApiKeyModal) with   *)
(* the browser's localStorage, and the text formatter (formatSummary).     *)
(*                                                                         *)
(* Text is a sequence of one-character strings, so that trim, split and    *)
(* the two regular expressions of formatSummary are computed character by  *)
(* character.  Every await of the code is a point where other handlers     *)
(* may run: each asynchronous function is cut into one action per await.   *)
(***************************************************************************)
EXTENDS Integers, Sequences, FiniteSets, TLC

VARIABLES
    file,            \* Index: useState<File | null>
    instructions,    \* Index: useState("")
    showApiModal,    \* Index: useState(false)
    loading,         \* PDFSummarizer: useState(false)
    summary,         \* PDFSummarizer: useState("")
    totalPages,      \* PDFSummarizer: useState(0)
    pageSelections,  \* PDFSummarizer: useState<PageSelection[]>([])
    inits,           \* initializePDF runs that are awaiting the document
    reqs,            \* summarizePDF runs (and the page extractions they started)
    uploads,         \* File objects accepted so far (the identity of the next)
    runs,            \* summarizePDF runs started so far (the identity of the next)
    edits,           \* dialog and text-field steps taken so far
    quota,           \* how many drops, runs and edits a behaviour may take
    storage,         \* window.localStorage
    mounted,         \* ApiKeyModal: have its mount effects run
    mProvider,       \* ApiKeyModal: useState("gemini")
    mApiKey,         \* ApiKeyModal: useState("")
    mModel,          \* ApiKeyModal: useState("gemini-pro")
    event,           \* the last handler step and the notification it showed
    fmtIn,           \* formatter runs: the fragments of the input text
    fmtOut           \* formatter runs: the results of formatSummary so far

vars == <<file, instructions, showApiModal, loading, summary, totalPages,
          pageSelections, inits, reqs, uploads, runs, edits, quota, storage, mounted,
          mProvider,
          mApiKey, mModel, event, fmtIn, fmtOut>>

indexVars == <<file, instructions, showApiModal>>
summarizerVars == <<loading, summary, totalPages, pageSelections>>
modalVars == <<mounted, mProvider, mApiKey, mModel>>
boundVars == <<uploads, runs, edits, quota>>
fmtVars == <<fmtIn, fmtOut>>

----------------------------------------------------------------------------
(* Bounds of the model. *)

MaxUploads == 2    \* File objects accepted in one behaviour
MaxRequests == 2   \* summarizePDF runs started in one behaviour
MaxEdits == 2      \* dialog and text-field steps in one behaviour
MaxFrags == 5      \* fragments making up an input of formatSummary

NoFile == [id |-> 0, type |-> "none", doc |-> 0]   \* useState<File | null>(null)

----------------------------------------------------------------------------
(* Text: sequences of characters. *)

Whitespace == {" ", "\n", "\t"}
Digits == {"0", "1", "2", "3", "4", "5", "6", "7", "8", "9"}

RECURSIVE TrimStart(_)
TrimStart(t) ==
    IF t # <<>> /\ Head(t) \in Whitespace THEN TrimStart(Tail(t)) ELSE t

RECURSIVE TrimEnd(_)
TrimEnd(t) ==
    IF t # <<>> /\ t[Len(t)] \in Whitespace
    THEN TrimEnd(SubSeq(t, 1, Len(t) - 1))
    ELSE t

\* String.prototype.trim
Trim(t) == TrimEnd(TrimStart(t))

\* Array.prototype.join on an array of texts
RECURSIVE Join(_, _)
Join(parts, sep) ==
    IF parts = <<>> THEN <<>>
    ELSE IF Len(parts) = 1 THEN parts[1]
    ELSE parts[1] \o sep \o Join(Tail(parts), sep)

\* The text as a string value (for template literals).
RECURSIVE Str(_)
Str(t) == IF t = <<>> THEN "" ELSE Head(t) \o Str(Tail(t))

----------------------------------------------------------------------------
(* textUtils.ts: formatSummary. *)

PARAGRAF == <<"P", "a", "r", "a", "g", "r", "a", "f", " ">>

\* Does the literal lit occur in t at position i?
LiteralAt(t, i, lit) ==
    /\ i + Len(lit) - 1 <= Len(t)
    /\ SubSeq(t, i, i + Len(lit) - 1) = lit

\* \d+ is greedy: the digits from position i on.
RECURSIVE DigitRun(_, _)
DigitRun(t, i) ==
    IF i <= Len(t) /\ t[i] \in Digits THEN 1 + DigitRun(t, i + 1) ELSE 0

\* The length of the match of /Paragraf \d+:/ that starts at i, or 0.
PlainMatch(t, i) ==
    IF LiteralAt(t, i, PARAGRAF)
    THEN LET n == DigitRun(t, i + Len(PARAGRAF))
             j == i + Len(PARAGRAF) + n
         IN  IF n >= 1 /\ j <= Len(t) /\ t[j] = ":"
             THEN Len(PARAGRAF) + n + 1
             ELSE 0
    ELSE 0

\* The length of the match of /\*\*Paragraf \d+:\*\*/ that starts at i, or 0.
BoldMatch(t, i) ==
    IF LiteralAt(t, i, <<"*", "*">>)
    THEN LET m == PlainMatch(t, i + 2)
         IN  IF m > 0 /\ LiteralAt(t, i + 2 + m, <<"*", "*">>)
             THEN m + 4
             ELSE 0
    ELSE 0

MatchLen(kind, t, i) ==
    IF kind = "bold" THEN BoldMatch(t, i) ELSE PlainMatch(t, i)

\* String.prototype.replace(/.../g, ''): one scan from the left; the scan
\* goes on after the end of each match.
RECURSIVE RemoveFrom(_, _, _)
RemoveFrom(kind, t, i) ==
    IF i > Len(t) THEN <<>>
    ELSE LET m == MatchLen(kind, t, i)
         IN  IF m > 0
             THEN RemoveFrom(kind, t, i + m)
             ELSE <<t[i]>> \o RemoveFrom(kind, t, i + 1)

ReplaceAll(kind, t) == RemoveFrom(kind, t, 1)

\* String.prototype.split on a one-character separator.
RECURSIVE Split(_, _)
Split(t, sep) ==
    IF \E i \in 1..Len(t) : t[i] = sep
    THEN LET i == CHOOSE k \in 1..Len(t) :
                      t[k] = sep /\ \A j \in 1..(k - 1) : t[j] # sep
         IN  <<SubSeq(t, 1, i - 1)>> \o Split(SubSeq(t, i + 1, Len(t)), sep)
    ELSE <<t>>

NonEmpty(paragraph) == Len(paragraph) > 0

\* formatSummary without the trim of each line.
formatSummary_untrimmed(text) ==
    LET stripped == ReplaceAll("plain", ReplaceAll("bold", text))
        lines == Split(stripped, "\n")
    IN  Join(SelectSeq(lines, NonEmpty), <<"\n", "\n">>)

formatSummary(text) ==
    LET stripped == ReplaceAll("plain", ReplaceAll("bold", text))
        lines == Split(stripped, "\n")
        trimmed == [i \in DOMAIN lines |-> Trim(lines[i])]
    IN  Join(SelectSeq(trimmed, NonEmpty), <<"\n", "\n">>)

----------------------------------------------------------------------------
(* The documents a user may drop.  A page is its text layer: the items of  *)
(* pdf.js's getTextContent, each a text.  A document that does not parse   *)
(* has ok = FALSE.                                                         *)

Hello == <<"H", "e", "l", "l", "o">>
World == <<"W", "o", "r", "l", "d">>
Scanned == <<"S", "c", "a", "n">>     \* what tesseract recognises on a raster

DocLib ==
    << [ok |-> TRUE,  pages |-> << <<Hello>>, <<>>, <<World>> >>],
       [ok |-> TRUE,  pages |-> << <<<<" ">>, <<>>>>, <<<<"a">>, <<"b">>>> >>],
       [ok |-> FALSE, pages |-> <<>>] >>

NumPages(d) == Len(DocLib[d].pages)

MimeTypes == {"application/pdf", "text/plain"}

\* What reading and parsing file f can end in: a file on disk may become
\* unreadable at any time; a document that does not parse never loads.
LoadOutcomes(f) == IF DocLib[f.doc].ok THEN {"ok", "error"} ELSE {"error"}

----------------------------------------------------------------------------
(* window.localStorage: getItem gives <<>> for null and <<v>> for the      *)
(* stored value v.                                                         *)

Providers == {"gemini", "openai"}
Models ==
    [p \in Providers |->
        IF p = "gemini" THEN {"gemini-pro", "gemini-1.5-pro", "gemini-2.0-flash"}
        ELSE {"gpt-4o", "gpt-4o-mini"}]
DefaultModel(p) == IF p = "gemini" THEN "gemini-pro" ELSE "gpt-4o"

toUpperCase(p) == IF p = "gemini" THEN "GEMINI" ELSE "OPENAI"
ApiKeyItem(p) == toUpperCase(p) \o "_API_KEY"
ModelItem(p) == toUpperCase(p) \o "_MODEL"

StorageKeys ==
    {"SELECTED_PROVIDER"} \cup {ApiKeyItem(p) : p \in Providers}
        \cup {ModelItem(p) : p \in Providers}

getItem(st, k) == st[k]
setItem(st, k, v) == [st EXCEPT ![k] = <<v>>]

\* JavaScript truthiness of a getItem result: neither null nor "".
Truthy(o) == o # <<>> /\ Len(o[1]) > 0
\* o || dflt
OrElse(o, dflt) == IF Truthy(o) THEN o[1] ELSE dflt

TheKey == <<"k">>

\* What earlier sessions can have left in localStorage: nothing at all, or
\* the provider last shown by the dialog and, for each provider, nothing or
\* a key and a model saved together by handleSave.
FreshStorage == [k \in StorageKeys |-> <<>>]

\* A model other than the default one, to tell a stored model from it.
OtherModel(p) == CHOOSE m \in Models[p] : m # DefaultModel(p)

StoredStates ==
    LET saved(p) == {<<<<>>, <<>>>>, <<<<TheKey>>, <<OtherModel(p)>>>>}
    IN  {FreshStorage} \cup
        {[k \in StorageKeys |->
             IF k = "SELECTED_PROVIDER" THEN <<sp>>
             ELSE IF k = ApiKeyItem("gemini") THEN g[1]
             ELSE IF k = ModelItem("gemini") THEN g[2]
             ELSE IF k = ApiKeyItem("openai") THEN o[1]
             ELSE o[2]] :
         sp \in Providers, g \in saved("gemini"), o \in saved("openai")}

\* A session in which a key was saved for provider p with its default model.
SavedStorage(p) ==
    [FreshStorage EXCEPT !["SELECTED_PROVIDER"] = <<p>>,
                         ![ApiKeyItem(p)] = <<TheKey>>,
                         ![ModelItem(p)] = <<DefaultModel(p)>>]
KeyedStates == {SavedStorage(p) : p \in Providers}

----------------------------------------------------------------------------
(* Notifications: event is the last step taken (op), the toast it showed   *)
(* and the HTTP status of the provider's answer it handled (0: none).     *)

NoToast == [title |-> "none", description |-> ""]
Toast(t, d) == [title |-> t, description |-> d]
Answered(op, toast, status) == [op |-> op, toast |-> toast, status |-> status]
Did(op, toast) == Answered(op, toast, 0)

----------------------------------------------------------------------------
(* Index (the upload page). *)

\* The files a drop can hand to onDrop: none, or one File of either type.
Dropped ==
    {<<>>} \cup
    {<<[id |-> uploads + 1, type |-> t, doc |-> d]>> :
        t \in MimeTypes, d \in 1..Len(DocLib)}

\* onDrop taking any file, whatever its type.
onDrop_anyType(acceptedFiles) ==
    /\ mounted
    /\ IF acceptedFiles = <<>>
       THEN /\ event' = Did("onDrop",
                            Toast("Invalid file type", "Please upload a PDF file"))
            /\ UNCHANGED <<file, inits, uploads>>
       ELSE /\ uploads < quota.uploads
            /\ file' = acceptedFiles[1]
            /\ uploads' = uploads + 1
            /\ inits' = inits \cup {acceptedFiles[1]}
            /\ event' = Did("onDrop", NoToast)
    /\ UNCHANGED <<instructions, showApiModal, summarizerVars, reqs, runs,
                   storage, modalVars, fmtVars, edits, quota>>

\* onDrop; a new file prop re-runs the summarizer's effect, which starts
\* initializePDF on that file.
onDrop(acceptedFiles) ==
    /\ mounted
    /\ IF acceptedFiles = <<>> \/ acceptedFiles[1].type # "application/pdf"
       THEN /\ event' = Did("onDrop",
                            Toast("Invalid file type", "Please upload a PDF file"))
            /\ UNCHANGED <<file, inits, uploads>>
       ELSE /\ uploads < quota.uploads
            /\ file' = acceptedFiles[1]
            /\ uploads' = uploads + 1
            /\ inits' = inits \cup {acceptedFiles[1]}
            /\ event' = Did("onDrop", NoToast)
    /\ UNCHANGED <<instructions, showApiModal, summarizerVars, reqs, runs,
                   storage, modalVars, fmtVars, edits, quota>>

InstructionTexts == {"", "Be brief"}

\* A step of the user in a text field or in the settings dialog.
Edit == edits < quota.edits /\ edits' = edits + 1

setInstructions(text) ==
    /\ mounted
    /\ text # instructions
    /\ instructions' = text
    /\ Edit
    /\ event' = Did("setInstructions", NoToast)
    /\ UNCHANGED <<file, showApiModal, summarizerVars, inits, reqs, storage,
                   modalVars, fmtVars, uploads, runs, quota>>

----------------------------------------------------------------------------
(* PDFSummarizer: initializePDF and togglePageSelection. *)

\* NewSelections numbering the pages from 0.
NewSelections_zeroBased(n) == [i \in 1..n |-> [pageNum |-> i - 1, selected |-> FALSE]]

\* Array.from({ length: n }, (_, i) => ({ pageNum: i + 1, selected: false }))
NewSelections(n) == [i \in 1..n |-> [pageNum |-> i, selected |-> FALSE]]

\* initializePDF on file f, once its document has been read and parsed.
initializePDF_loaded(f) ==
    /\ f \in inits
    /\ "ok" \in LoadOutcomes(f)
    /\ totalPages' = NumPages(f.doc)
    /\ pageSelections' = NewSelections(NumPages(f.doc))
    /\ inits' = inits \ {f}
    /\ event' = Did("initializePDF_loaded", NoToast)
    /\ UNCHANGED <<indexVars, loading, summary, reqs, storage, modalVars,
                   fmtVars, boundVars>>

\* initializePDF on file f, when reading or parsing throws.
initializePDF_failed(f) ==
    /\ f \in inits
    /\ "error" \in LoadOutcomes(f)
    /\ inits' = inits \ {f}
    /\ event' = Did("initializePDF_failed", Toast("Error", "Failed to load PDF file"))
    /\ UNCHANGED <<indexVars, summarizerVars, reqs, storage, modalVars, fmtVars,
                   boundVars>>

\* TogglePage selecting the page instead of flipping it.
TogglePage_select(prev, pageNum) ==
    [i \in DOMAIN prev |->
        IF prev[i].pageNum = pageNum
        THEN [prev[i] EXCEPT !.selected = TRUE]
        ELSE prev[i]]

\* prev.map(page => page.pageNum === pageNum ? {...page, selected: !page.selected} : page)
TogglePage(prev, pageNum) ==
    [i \in DOMAIN prev |->
        IF prev[i].pageNum = pageNum
        THEN [prev[i] EXCEPT !.selected = ~prev[i].selected]
        ELSE prev[i]]

\* A click on the checkbox of page pageNum (PageSelector shows one checkbox
\* per entry, and only when totalPages > 0).
togglePageSelection(pageNum) ==
    /\ file # NoFile
    /\ totalPages > 0
    /\ \E i \in DOMAIN pageSelections : pageSelections[i].pageNum = pageNum
    /\ pageSelections' = TogglePage(pageSelections, pageNum)
    /\ event' = Did("togglePageSelection", NoToast)
    /\ UNCHANGED <<indexVars, loading, summary, totalPages, inits, reqs,
                   storage, modalVars, fmtVars, boundVars>>

----------------------------------------------------------------------------
(* PDFSummarizer: handleApiError.  A thrown value is a record: its status  *)
(* (0 when it has none), its body, and its message ("" when it has none).  *)
(* A body is absent, JSON text (carrying error.message, "" when it has     *)
(* none) or text that JSON.parse rejects.                                  *)

NoBody == [kind |-> "absent", message |-> ""]
Bodies ==
    {NoBody, [kind |-> "invalid", message |-> ""]} \cup
    {[kind |-> "json", message |-> m] : m \in {"", "Quota exceeded"}}

Thrown(status, body, message) ==
    [status |-> status, body |-> body, message |-> message]
Error(message) == Thrown(0, NoBody, message)

RATE_LIMITED == 429

QuotaToast ==
    Toast("API Quota Exceeded",
          "You've reached the API rate limit. Please try again after a few minutes or use a different API key.")

ErrorToast(errorMessage) ==
    Toast("Error",
          IF errorMessage # "" THEN errorMessage
          ELSE "Failed to summarize PDF. Please try again.")

\* The toast handleApiError shows for error; NoToast when JSON.parse throws
\* out of it before any toast is shown.
handleApiError(error) ==
    IF error.status = RATE_LIMITED THEN QuotaToast
    ELSE IF error.body.kind = "absent" THEN ErrorToast(error.message)
    ELSE IF error.body.kind = "invalid" THEN NoToast
    ELSE ErrorToast(error.body.message)

----------------------------------------------------------------------------
(* PDFSummarizer: summarizePDF.  A run is a record: pc is where it waits   *)
(* ("load": the document; "extract": Promise.all over the pages; "net":    *)
(* the provider's answer; "aborted": it has ended, page extractions it     *)
(* started still run).  file, pages and instr are what its closure holds.  *)

NoCall == [provider |-> "", model |-> "", apiKey |-> <<>>, prompt |-> ""]

IsSelected(page) == page.selected

NewRun(rid, f, selectedPages, instr) ==
    [rid |-> rid, pc |-> "load", file |-> f,
     pages |-> [i \in DOMAIN selectedPages |-> selectedPages[i].pageNum],
     instr |-> instr, provider |-> "", apiKey |-> <<>>,
     tasks |-> [i \in DOMAIN selectedPages |-> "new"],
     texts |-> [i \in DOMAIN selectedPages |-> <<>>],
     ocr |-> {}, call |-> NoCall]

\* summarizePDF with setLoading(true) ahead of the check of the selection.
summarizePDF_loadingFirst ==
    /\ file # NoFile
    /\ ~loading
    /\ loading' = TRUE
    /\ LET selectedPages == SelectSeq(pageSelections, IsSelected)
       IN  IF Len(selectedPages) = 0
           THEN /\ event' = Did("summarizePDF",
                                Toast("No Pages Selected",
                                      "Please select at least one page to summarize"))
                /\ UNCHANGED <<reqs, runs>>
           ELSE /\ runs < quota.runs
                /\ runs' = runs + 1
                /\ reqs' = reqs \cup
                       {NewRun(runs + 1, file, selectedPages, instructions)}
                /\ event' = Did("summarizePDF", NoToast)
    /\ UNCHANGED <<indexVars, summary, totalPages, pageSelections, inits,
                   uploads, storage, modalVars, fmtVars, edits, quota>>

\* summarizePDF with the button left enabled while loading.
summarizePDF_alwaysEnabled ==
    /\ file # NoFile
    /\ LET selectedPages == SelectSeq(pageSelections, IsSelected)
       IN  IF Len(selectedPages) = 0
           THEN /\ event' = Did("summarizePDF",
                                Toast("No Pages Selected",
                                      "Please select at least one page to summarize"))
                /\ UNCHANGED <<loading, reqs, runs>>
           ELSE /\ runs < quota.runs
                /\ loading' = TRUE
                /\ runs' = runs + 1
                /\ reqs' = reqs \cup
                       {NewRun(runs + 1, file, selectedPages, instructions)}
                /\ event' = Did("summarizePDF", NoToast)
    /\ UNCHANGED <<indexVars, summary, totalPages, pageSelections, inits,
                   uploads, storage, modalVars, fmtVars, edits, quota>>

\* A click on the button (disabled while loading).
summarizePDF ==
    /\ file # NoFile
    /\ ~loading
    /\ LET selectedPages == SelectSeq(pageSelections, IsSelected)
       IN  IF Len(selectedPages) = 0
           THEN /\ event' = Did("summarizePDF",
                                Toast("No Pages Selected",
                                      "Please select at least one page to summarize"))
                /\ UNCHANGED <<loading, reqs, runs>>
           ELSE /\ runs < quota.runs
                /\ loading' = TRUE
                /\ runs' = runs + 1
                /\ reqs' = reqs \cup
                       {NewRun(runs + 1, file, selectedPages, instructions)}
                /\ event' = Did("summarizePDF", NoToast)
    /\ UNCHANGED <<indexVars, summary, totalPages, pageSelections, inits,
                   uploads, storage, modalVars, fmtVars, edits, quota>>

\* The run's catch and finally: handleApiError(error), setLoading(false).
Caught(op, error, status) ==
    /\ event' = Answered(op, handleApiError(error), status)
    /\ loading' = FALSE

NoKeyToast(provider) ==
    Toast("No API Key Found",
          "Please set your " \o (IF provider = "gemini" THEN "Gemini" ELSE "OpenAI")
              \o " API key in the settings")

\* summarizePDF_loaded looking for the key of provider A whatever the
\* selected provider.
summarizePDF_loaded_geminiKey(r) ==
    /\ r \in reqs /\ r.pc = "load"
    /\ "ok" \in LoadOutcomes(r.file)
    /\ LET provider == OrElse(getItem(storage, "SELECTED_PROVIDER"), "gemini")
           apiKey == getItem(storage, "GEMINI_API_KEY")
       IN  IF ~Truthy(apiKey)
           THEN /\ event' = Did("summarizePDF_loaded", NoKeyToast(provider))
                /\ loading' = FALSE
                /\ reqs' = reqs \ {r}
           ELSE /\ event' = Did("summarizePDF_loaded", NoToast)
                /\ reqs' = (reqs \ {r}) \cup
                       {[r EXCEPT !.pc = "extract", !.provider = provider,
                                  !.apiKey = apiKey[1],
                                  !.tasks = [i \in DOMAIN r.tasks |-> "get"]]}
                /\ UNCHANGED loading
    /\ UNCHANGED <<indexVars, summary, totalPages, pageSelections, inits,
                   storage, modalVars, fmtVars, boundVars>>

\* The document of run r has been read and parsed: the provider and its key
\* are read, and either the run ends for want of a key or the extraction of
\* every selected page starts.
summarizePDF_loaded(r) ==
    /\ r \in reqs /\ r.pc = "load"
    /\ "ok" \in LoadOutcomes(r.file)
    /\ LET provider == OrElse(getItem(storage, "SELECTED_PROVIDER"), "gemini")
           apiKey == getItem(storage, ApiKeyItem(provider))
       IN  IF ~Truthy(apiKey)
           THEN /\ event' = Did("summarizePDF_loaded", NoKeyToast(provider))
                /\ loading' = FALSE
                /\ reqs' = reqs \ {r}
           ELSE /\ event' = Did("summarizePDF_loaded", NoToast)
                /\ reqs' = (reqs \ {r}) \cup
                       {[r EXCEPT !.pc = "extract", !.provider = provider,
                                  !.apiKey = apiKey[1],
                                  !.tasks = [i \in DOMAIN r.tasks |-> "get"]]}
                /\ UNCHANGED loading
    /\ UNCHANGED <<indexVars, summary, totalPages, pageSelections, inits,
                   storage, modalVars, fmtVars, boundVars>>

LoadErrors == {Error("Invalid PDF structure")}

\* Reading or parsing the document of run r throws.
summarizePDF_loadFailed(r, error) ==
    /\ r \in reqs /\ r.pc = "load"
    /\ "error" \in LoadOutcomes(r.file)
    /\ Caught("summarizePDF_loadFailed", error, 0)
    /\ reqs' = reqs \ {r}
    /\ UNCHANGED <<indexVars, summary, totalPages, pageSelections, inits,
                   storage, modalVars, fmtVars, boundVars>>

----------------------------------------------------------------------------
(* summarizePDF: the extraction of the selected pages (Promise.all). *)

\* textContent.items.map(item => item.str).join(' ')
PageText(d, pageNum) == Join(DocLib[d].pages[pageNum], <<" ">>)

\* Array.prototype.join on strings
RECURSIVE JoinStr(_, _)
JoinStr(parts, sep) ==
    IF parts = <<>> THEN ""
    ELSE IF Len(parts) = 1 THEN parts[1]
    ELSE parts[1] \o sep \o JoinStr(Tail(parts), sep)

\* ContextPrompt leaving the instructions out.
ContextPrompt_noInstructions(n, instr) ==
    "Please provide a coherent summary of the following "
        \o (IF n > 1 THEN "pages" ELSE "page") \o " from an article. "
        \o "\n\nThe content is from " \o ToString(n) \o " page"
        \o (IF n > 1 THEN "s" ELSE "")
        \o " of a document. Please analyze the content, maintain the logical flow between pages, and provide a comprehensive summary that captures the main ideas and their relationships.\n\n"

ContextPrompt(n, instr) ==
    "Please provide a coherent summary of the following "
        \o (IF n > 1 THEN "pages" ELSE "page") \o " from an article. "
        \o (IF instr # "" THEN "Additional instructions: " \o instr \o "\n\n" ELSE "")
        \o "\n\nThe content is from " \o ToString(n) \o " page"
        \o (IF n > 1 THEN "s" ELSE "")
        \o " of a document. Please analyze the content, maintain the logical flow between pages, and provide a comprehensive summary that captures the main ideas and their relationships.\n\n"

\* allPageTexts.map(({ pageNum, text }) => `Page ${pageNum}:\n${text}`).join('\n\n')
PageTexts(pages, texts) ==
    JoinStr([i \in DOMAIN pages |->
                "Page " \o ToString(pages[i]) \o ":\n" \o Str(texts[i])],
            "\n\n")

BuildPrompt(pages, texts, instr) ==
    ContextPrompt(Len(pages), instr) \o PageTexts(pages, texts)

\* The call the run issues once every page text is there: the model is read
\* from localStorage at that moment.
IssueCall(r, st) ==
    [provider |-> r.provider,
     model |-> OrElse(getItem(st, ModelItem(r.provider)), DefaultModel(r.provider)),
     apiKey |-> r.apiKey,
     prompt |-> BuildPrompt(r.pages, r.texts, r.instr)]

Running(r) == {i \in DOMAIN r.tasks : r.tasks[i] \in {"get", "render", "ocr"}}

PageErrors == {Error("Invalid page request")}

\* Settle waiting for every page to settle and going on with the pages
\* that succeeded (Promise.allSettled).
Settle_allSettled(r, r2, error) ==
    LET settled == \A i \in DOMAIN r2.tasks : r2.tasks[i] \in {"done", "fail"}
        keep(x) == IF x.pc = "aborted" /\ Running(x) = {} THEN {} ELSE {x}
    IN  IF r.pc = "extract" /\ settled
        THEN /\ event' = Did("extract", NoToast)
             /\ reqs' = (reqs \ {r}) \cup
                    {[r2 EXCEPT !.pc = "net", !.call = IssueCall(r2, storage)]}
             /\ UNCHANGED loading
        ELSE /\ event' = Did("extract", NoToast)
             /\ reqs' = (reqs \ {r}) \cup keep(r2)
             /\ UNCHANGED loading

\* What follows a step of a page extraction of run r (now r2): Promise.all
\* rejects on the first failure and the run ends in catch and finally; it
\* resolves when every page is done and the run issues its call; a run that
\* has ended stays only while extractions it started are still running.
Settle(r, r2, error) ==
    LET failed == \E i \in DOMAIN r2.tasks : r2.tasks[i] = "fail"
        allDone == \A i \in DOMAIN r2.tasks : r2.tasks[i] = "done"
        keep(x) == IF x.pc = "aborted" /\ Running(x) = {} THEN {} ELSE {x}
    IN  IF r.pc = "extract" /\ failed
        THEN /\ Caught("extract", error, 0)
             /\ reqs' = (reqs \ {r}) \cup keep([r2 EXCEPT !.pc = "aborted"])
        ELSE IF r.pc = "extract" /\ allDone
        THEN /\ event' = Did("extract", NoToast)
             /\ reqs' = (reqs \ {r}) \cup
                    {[r2 EXCEPT !.pc = "net", !.call = IssueCall(r2, storage)]}
             /\ UNCHANGED loading
        ELSE /\ event' = Did("extract", NoToast)
             /\ reqs' = (reqs \ {r}) \cup keep(r2)
             /\ UNCHANGED loading

ExtractFrame ==
    UNCHANGED <<indexVars, summary, totalPages, pageSelections, inits,
                   storage, modalVars, fmtVars, boundVars>>

\* extract_text testing the page text without trimming it.
extract_text_untrimmed(r, i) ==
    /\ r \in reqs /\ r.pc \in {"extract", "aborted"}
    /\ i \in DOMAIN r.tasks /\ r.tasks[i] = "get"
    /\ r.pages[i] <= NumPages(r.file.doc)
    /\ LET pageText == PageText(r.file.doc, r.pages[i])
       IN  IF pageText = <<>>
           THEN Settle(r, [r EXCEPT !.tasks[i] = "render"], Error(""))
           ELSE Settle(r, [r EXCEPT !.tasks[i] = "done", !.texts[i] = pageText],
                       Error(""))
    /\ ExtractFrame

\* getPage and getTextContent of the i-th selected page have resolved: the
\* page text is kept, or (empty after trimming) the page is rendered.
extract_text(r, i) ==
    /\ r \in reqs /\ r.pc \in {"extract", "aborted"}
    /\ i \in DOMAIN r.tasks /\ r.tasks[i] = "get"
    /\ r.pages[i] <= NumPages(r.file.doc)
    /\ LET pageText == PageText(r.file.doc, r.pages[i])
       IN  IF Trim(pageText) = <<>>
           THEN Settle(r, [r EXCEPT !.tasks[i] = "render"], Error(""))
           ELSE Settle(r, [r EXCEPT !.tasks[i] = "done", !.texts[i] = pageText],
                       Error(""))
    /\ ExtractFrame

\* page.render has resolved: performOCR is called with the canvas.
extract_rendered(r, i) ==
    /\ r \in reqs /\ r.pc \in {"extract", "aborted"}
    /\ i \in DOMAIN r.tasks /\ r.tasks[i] = "render"
    /\ Settle(r, [r EXCEPT !.tasks[i] = "ocr", !.ocr = r.ocr \cup {i}], Error(""))
    /\ ExtractFrame

\* performOCR has resolved with the recognised text.
extract_recognized(r, i, text) ==
    /\ r \in reqs /\ r.pc \in {"extract", "aborted"}
    /\ i \in DOMAIN r.tasks /\ r.tasks[i] = "ocr"
    /\ Settle(r, [r EXCEPT !.tasks[i] = "done", !.texts[i] = text], Error(""))
    /\ ExtractFrame

\* getPage, getTextContent, render or performOCR of the i-th selected page
\* throws (getPage always does for a page the document does not have).
extract_failed(r, i, error) ==
    /\ r \in reqs /\ r.pc \in {"extract", "aborted"}
    /\ i \in Running(r)
    /\ Settle(r, [r EXCEPT !.tasks[i] = "fail"], error)
    /\ ExtractFrame

----------------------------------------------------------------------------
(* summarizePDF: the provider's answer. *)

Example == <<"*", "*">> \o PARAGRAF
               \o <<"1", ":", "*", "*", " ", "H", "i", " ", "t", "h", "e", "r", "e">>
RawSummaries == {Example, <<"O", "k", "\n">>}

Returned(text) == [ok |-> TRUE, text |-> text, error |-> Error("")]
Threw(error) == [ok |-> FALSE, text |-> <<>>, error |-> error]

\* Provider A: model.generateContent and response.text() of the SDK return
\* the text or throw; what the SDK throws for an HTTP answer carries its
\* status, and may carry a body.
SdkErrors ==
    {Thrown(s, b, m) : s \in {0, RATE_LIMITED, 500}, b \in Bodies,
                       m \in {"", "fetch failed"}}
SdkOutcomes == {Returned(t) : t \in RawSummaries} \cup {Threw(e) : e \in SdkErrors}

\* Provider B: fetch rejects (status 0 here), or resolves with a response.
MalformedJson == [kind |-> "malformed", choices |-> <<>>]
JsonBodies ==
    {MalformedJson, [kind |-> "json", choices |-> <<>>]} \cup
    {[kind |-> "json", choices |-> <<t>>] : t \in RawSummaries}
Rejected == [status |-> 0, statusText |-> "", json |-> MalformedJson]
HttpResponses ==
    {[status |-> 200, statusText |-> "OK", json |-> j] : j \in JsonBodies} \cup
    {[status |-> RATE_LIMITED, statusText |-> "Too Many Requests", json |-> MalformedJson],
     [status |-> 500, statusText |-> "Internal Server Error", json |-> MalformedJson]}

\* response.ok
Ok(response) == response.status >= 200 /\ response.status <= 299

\* Lines 156-182 on what fetch settles with: the summary text, or what is
\* thrown.
ReadResponse(response) ==
    IF response = Rejected
    THEN Threw(Error("Failed to fetch"))
    ELSE IF ~Ok(response)
    THEN Threw(Error("OpenAI API error: " \o response.statusText))
    ELSE IF response.json.kind = "malformed"
    THEN Threw(Error("Unexpected token"))
    ELSE IF response.json.choices = <<>>
    THEN Threw(Error("Cannot read properties of undefined"))
    ELSE Returned(response.json.choices[1])

AnswerFrame ==
    UNCHANGED <<indexVars, totalPages, pageSelections, inits, storage,
                modalVars, fmtVars, boundVars>>

\* Finish issuing the call again when it has failed.
Finish_retry(op, r, outcome, status) ==
    IF outcome.ok
    THEN /\ reqs' = reqs \ {r}
         /\ summary' = formatSummary(outcome.text)
         /\ event' = Answered(op, Toast("Success",
                                        "Selected pages have been summarized!"),
                              status)
         /\ loading' = FALSE
    ELSE /\ reqs' = reqs
         /\ event' = Answered(op, NoToast, status)
         /\ UNCHANGED <<summary, loading>>

\* The end of run r, on the outcome of its call.
Finish(op, r, outcome, status) ==
    /\ reqs' = reqs \ {r}
    /\ IF outcome.ok
       THEN /\ summary' = formatSummary(outcome.text)
            /\ event' = Answered(op, Toast("Success",
                                           "Selected pages have been summarized!"),
                                 status)
            /\ loading' = FALSE
       ELSE /\ Caught(op, outcome.error, status)
            /\ UNCHANGED summary

\* Provider A answers the call of run r.
generateContent_settled(r, outcome) ==
    /\ r \in reqs /\ r.pc = "net" /\ r.call.provider = "gemini"
    /\ outcome \in SdkOutcomes
    /\ Finish("generateContent_settled", r, outcome,
              IF outcome.ok THEN 200 ELSE outcome.error.status)
    /\ AnswerFrame

\* Provider B answers the call of run r.
fetch_settled(r, response) ==
    /\ r \in reqs /\ r.pc = "net" /\ r.call.provider # "gemini"
    /\ response \in HttpResponses \cup {Rejected}
    /\ Finish("fetch_settled", r, ReadResponse(response), response.status)
    /\ AnswerFrame

----------------------------------------------------------------------------
(* ApiKeyModal (the settings dialog), always mounted by Index. *)

KeyInputs == {<<>>, <<" ">>, <<" ", "k">>}

\* The effect on [provider]: the provider is persisted and the dialog's key
\* and model are reloaded for it.
ProviderEffect(p, st) ==
    [storage |-> setItem(st, "SELECTED_PROVIDER", p),
     apiKey |-> OrElse(getItem(st, ApiKeyItem(p)), <<>>),
     model |-> OrElse(getItem(st, ModelItem(p)), DefaultModel(p))]

\* The two effects after the first render (provider is still "gemini"),
\* and the effect on [provider] again once setProvider(savedProvider) has
\* re-rendered the dialog.
ApiKeyModal_mounted ==
    /\ ~mounted
    /\ LET savedProvider == OrElse(getItem(storage, "SELECTED_PROVIDER"), "gemini")
           first == ProviderEffect("gemini", storage)
           last == IF savedProvider = "gemini" THEN first
                   ELSE ProviderEffect(savedProvider, first.storage)
       IN  /\ mProvider' = savedProvider
           /\ storage' = last.storage
           /\ mApiKey' = last.apiKey
           /\ mModel' = last.model
    /\ mounted' = TRUE
    /\ event' = Did("ApiKeyModal_mounted", NoToast)
    /\ UNCHANGED <<indexVars, summarizerVars, inits, reqs, fmtVars, boundVars>>

ModalFrame ==
    /\ Edit
    /\ UNCHANGED <<file, instructions, summarizerVars, inits, reqs, mounted,
                   fmtVars, uploads, runs, quota>>

\* The "Set API Key" button.
openApiModal ==
    /\ mounted /\ ~showApiModal
    /\ showApiModal' = TRUE
    /\ event' = Did("openApiModal", NoToast)
    /\ UNCHANGED <<storage, mProvider, mApiKey, mModel>>
    /\ ModalFrame

\* Cancel, or closing the dialog.
onClose ==
    /\ showApiModal
    /\ showApiModal' = FALSE
    /\ event' = Did("onClose", NoToast)
    /\ UNCHANGED <<storage, mProvider, mApiKey, mModel>>
    /\ ModalFrame

\* The provider select: setProvider(p), then the effect on [provider].
setProvider(p) ==
    /\ showApiModal
    /\ p # mProvider
    /\ LET eff == ProviderEffect(p, storage)
       IN  /\ mProvider' = p
           /\ storage' = eff.storage
           /\ mApiKey' = eff.apiKey
           /\ mModel' = eff.model
    /\ event' = Did("setProvider", NoToast)
    /\ UNCHANGED showApiModal
    /\ ModalFrame

\* Typing in the key input.
setApiKey(text) ==
    /\ showApiModal
    /\ text # mApiKey
    /\ mApiKey' = text
    /\ event' = Did("setApiKey", NoToast)
    /\ UNCHANGED <<showApiModal, storage, mProvider, mModel>>
    /\ ModalFrame

\* The model select, which lists the models of the dialog's provider.
setSelectedModel(m) ==
    /\ showApiModal
    /\ m \in Models[mProvider] /\ m # mModel
    /\ mModel' = m
    /\ event' = Did("setSelectedModel", NoToast)
    /\ UNCHANGED <<showApiModal, storage, mProvider, mApiKey>>
    /\ ModalFrame

\* "Save Settings".
handleSave ==
    /\ showApiModal
    /\ IF Trim(mApiKey) = <<>>
       THEN /\ event' = Did("handleSave", Toast("Error", "Please enter a valid API key"))
            /\ UNCHANGED <<showApiModal, storage>>
       ELSE /\ storage' = setItem(setItem(storage, ApiKeyItem(mProvider), Trim(mApiKey)),
                                  ModelItem(mProvider), mModel)
            /\ event' = Did("handleSave", Toast("Success", "API key saved successfully"))
            /\ showApiModal' = FALSE
    /\ UNCHANGED <<mProvider, mApiKey, mModel>>
    /\ ModalFrame

----------------------------------------------------------------------------
(* The application.  A behaviour starts with the first render, with what   *)
(* earlier sessions left in localStorage.                                  *)

InitApp(q, stored) ==
    /\ file = NoFile
    /\ instructions = ""
    /\ showApiModal = FALSE
    /\ loading = FALSE
    /\ summary = <<>>
    /\ totalPages = 0
    /\ pageSelections = <<>>
    /\ inits = {}
    /\ reqs = {}
    /\ uploads = 0
    /\ runs = 0
    /\ edits = 0
    /\ quota = q
    /\ storage \in stored
    /\ mounted = FALSE
    /\ mProvider = "gemini"
    /\ mApiKey = <<>>
    /\ mModel = "gemini-pro"
    /\ event = Did("render", NoToast)

InitWith(q, stored) ==
    /\ InitApp(q, stored)
    /\ fmtIn = <<>>
    /\ fmtOut = <<>>

NextUpload ==
    \/ ApiKeyModal_mounted
    \/ \E acceptedFiles \in Dropped : onDrop(acceptedFiles)
    \/ \E f \in inits : initializePDF_loaded(f)
    \/ \E f \in inits : initializePDF_failed(f)
    \/ \E pageNum \in 1..totalPages : togglePageSelection(pageNum)

NextSummarize ==
    \/ summarizePDF
    \/ \E r \in reqs : summarizePDF_loaded(r)
    \/ \E r \in reqs, error \in LoadErrors : summarizePDF_loadFailed(r, error)
    \/ \E r \in reqs : \E i \in DOMAIN r.tasks : extract_text(r, i)
    \/ \E r \in reqs : \E i \in DOMAIN r.tasks : extract_rendered(r, i)
    \/ \E r \in reqs : \E i \in DOMAIN r.tasks : extract_recognized(r, i, Scanned)
    \/ \E r \in reqs : \E i \in DOMAIN r.tasks, error \in PageErrors :
           extract_failed(r, i, error)
    \/ \E r \in reqs, outcome \in SdkOutcomes : generateContent_settled(r, outcome)
    \/ \E r \in reqs, response \in HttpResponses \cup {Rejected} :
           fetch_settled(r, response)

NextSettings ==
    \/ \E text \in InstructionTexts : setInstructions(text)
    \/ openApiModal
    \/ onClose
    \/ \E p \in Providers : setProvider(p)
    \/ \E text \in KeyInputs : setApiKey(text)
    \/ \E m \in UNION {Models[p] : p \in Providers} : setSelectedModel(m)
    \/ handleSave

Next == NextUpload \/ NextSummarize \/ NextSettings

\* One document, one run, with any stored settings and the dialog in use.
Init == InitWith([uploads |-> 1, runs |-> 1, edits |-> MaxEdits], StoredStates)
Spec == Init /\ [][Next]_vars

\* Uploads only.
InitUpload ==
    InitWith([uploads |-> MaxUploads, runs |-> 0, edits |-> 0], {FreshStorage})
SpecUpload == InitUpload /\ [][NextUpload]_vars

\* Several documents around one run.
InitRace ==
    InitWith([uploads |-> MaxUploads, runs |-> 1, edits |-> 0], KeyedStates)
SpecRace == InitRace /\ [][NextUpload \/ NextSummarize]_vars

\* Several runs on one document.
InitRetry ==
    InitWith([uploads |-> 1, runs |-> MaxRequests, edits |-> 0], KeyedStates)
SpecRetry == InitRetry /\ [][NextUpload \/ NextSummarize]_vars

----------------------------------------------------------------------------
(* formatSummary on its own: the input text is made of up to MaxFrags      *)
(* fragments (or is the example of the specification), and formatSummary   *)
(* is applied to it, and then to its own result.                           *)

Fragments ==
    {PARAGRAF \o <<"1">>, <<"2">>, <<":">>, <<"*", "*">>, <<" ">>, <<"\n">>, <<"x">>}

FragmentSeqs == UNION {[1..n -> Fragments] : n \in 0..MaxFrags}

\* The text the fragments make up.
Flatten(frags) == Join(frags, <<>>)

formatSummary_applied ==
    /\ Len(fmtOut) < 2
    /\ fmtOut' = Append(fmtOut,
                        formatSummary(IF fmtOut = <<>> THEN Flatten(fmtIn)
                                      ELSE fmtOut[Len(fmtOut)]))
    /\ event' = Did("formatSummary", NoToast)
    /\ UNCHANGED <<indexVars, summarizerVars, inits, reqs, storage, modalVars,
                   boundVars, fmtIn>>

InitFormat ==
    /\ InitApp([uploads |-> 0, runs |-> 0, edits |-> 0], {FreshStorage})
    /\ fmtIn \in FragmentSeqs \cup {<<Example>>}
    /\ fmtOut = <<>>
SpecFormat == InitFormat /\ [][formatSummary_applied]_vars

----------------------------------------------------------------------------
(* Claims about the guards of summarizePDF (Spec). *)

NoneSelected == \A i \in DOMAIN pageSelections : ~pageSelections[i].selected

\* C1: a click on the button while no page is selected shows the
\* 'No Pages Selected' notification, starts no request (so no call to either
\* provider) and changes no state: loading stays false, and the summary and
\* the page selections are unchanged.
C1_NoSelectionRejected ==
    [][(event'.op = "summarizePDF" /\ NoneSelected) =>
          /\ event'.toast.title = "No Pages Selected"
          /\ ~loading /\ ~loading'
          /\ UNCHANGED <<summary, pageSelections, totalPages, reqs, runs>>]_vars

\* The button has been clicked with nothing selected while an earlier
\* summary is on display.
C1_Witness ==
    /\ event.op = "summarizePDF"
    /\ event.toast.title = "No Pages Selected"
    /\ summary # <<>>
    /\ totalPages > 0

\* The provider selected in localStorage, and whether a key is stored for it.
SelectedProvider ==
    IF storage["SELECTED_PROVIDER"] \in {<<>>, <<"">>} THEN "gemini"
    ELSE storage["SELECTED_PROVIDER"][1]
KeyMissing ==
    storage[IF SelectedProvider = "gemini" THEN "GEMINI_API_KEY"
            ELSE "OPENAI_API_KEY"] \in {<<>>, << <<>> >>}

\* C2 as claimed: a request that gets past its first wait while no key is
\* stored for the selected provider shows 'No API Key Found' and issues no
\* call.
C2_NoKeyReported ==
    [][\A r \in reqs :
          (r.pc = "load" /\ r \notin reqs' /\ KeyMissing) =>
              /\ event'.toast.title = "No API Key Found"
              /\ \A q \in reqs' : q.rid # r.rid]_vars

\* C2 as amended: a request that finds no key stored for the selected
\* provider, when it looks for it after reading and parsing its file, ends
\* without a call and shows 'No API Key Found' naming that provider; when
\* reading or parsing the file fails it ends without a call and shows the
\* 'Error' notification instead.  No call is ever issued without a key.
C2_NoKeyNoCall ==
    [][/\ \A r \in reqs :
             (r.pc = "load" /\ r \notin reqs' /\ KeyMissing) =>
                 /\ \A q \in reqs' : q.rid # r.rid
                 /\ ~loading'
                 /\ IF event'.op = "summarizePDF_loaded"
                    THEN /\ event'.toast.title = "No API Key Found"
                         /\ event'.toast.description =
                                "Please set your "
                                \o (IF SelectedProvider = "gemini" THEN "Gemini"
                                    ELSE "OpenAI")
                                \o " API key in the settings"
                    ELSE /\ event'.op = "summarizePDF_loadFailed"
                         /\ event'.toast.title = "Error"
       /\ \A q \in reqs' : q.pc = "net" => q.call.apiKey # <<>>]_vars

\* A request has ended on 'No API Key Found' for provider B while a key is
\* stored for provider A only.
C2_Witness ==
    /\ event.op = "summarizePDF_loaded"
    /\ event.toast.title = "No API Key Found"
    /\ SelectedProvider = "openai"
    /\ storage["GEMINI_API_KEY"] \notin {<<>>, << <<>> >>}
    /\ reqs = {}

\* C3: when the provider answers the call with status 429, the notification
\* is 'API Quota Exceeded', not 'Error'.
C3_RateLimitReported ==
    event.status = 429 => event.toast.title = "API Quota Exceeded"

----------------------------------------------------------------------------
(* Claims about uploads (SpecRace, SpecUpload). *)

\* C4: the answer to a request issued against a file that is no longer the
\* current one is discarded: it does not set the summary.
C4_StaleAnswerDiscarded ==
    [][\A r \in reqs :
          (r.pc = "net" /\ r \notin reqs' /\ r.file # file) =>
              summary' = summary]_vars

\* C5: whenever page selections exist and no load is under way, they are
\* numbered 1..N in order, N being the page count of the current file.
C5_SelectionsOfCurrentFile ==
    (pageSelections # <<>> /\ inits = {}) =>
        /\ Len(pageSelections) = Len(DocLib[file.doc].pages)
        /\ \A i \in DOMAIN pageSelections : pageSelections[i].pageNum = i

\* C6: a successful initializePDF on a document of N pages leaves exactly N
\* page selections, numbered 1..N in ascending order and all unselected, and
\* totalPages = N, whatever the selections were.
C6_InitializeSelections ==
    [][event'.op = "initializePDF_loaded" =>
          \E f \in inits \ inits' :
              LET N == Len(DocLib[f.doc].pages)
              IN  /\ totalPages' = N
                  /\ Len(pageSelections') = N
                  /\ \A i \in 1..N :
                         pageSelections'[i] = [pageNum |-> i, selected |-> FALSE]]_vars

\* The second of two documents has been initialized.
C6_Witness ==
    /\ event.op = "initializePDF_loaded"
    /\ uploads = MaxUploads
    /\ inits = {}
    /\ Len(pageSelections) = 2

\* next is prev with the flag of page p flipped and nothing else changed.
Flipped(prev, next, p) ==
    /\ Len(next) = Len(prev)
    /\ \A i \in DOMAIN prev :
           /\ next[i].pageNum = prev[i].pageNum
           /\ next[i].selected = (IF prev[i].pageNum = p THEN ~prev[i].selected
                                  ELSE prev[i].selected)

\* C7: togglePageSelection(p) flips the flag of the entry numbered p and
\* leaves the other entries, their number and their order as they were;
\* doing it again restores the selections, and a page number that no entry
\* has changes nothing.
C7_ToggleFlipsOne ==
    [][event'.op = "togglePageSelection" =>
          /\ \E p \in 1..Len(pageSelections) :
                 /\ Flipped(pageSelections, pageSelections', p)
                 /\ Flipped(pageSelections', TogglePage(pageSelections', p), p)
                 /\ TogglePage(pageSelections', p) = pageSelections
          /\ \A p \in {0, Len(pageSelections) + 1} :
                 TogglePage(pageSelections', p) = pageSelections']_vars

\* A page has been toggled; one entry is selected and another is not.
C7_Witness ==
    /\ event.op = "togglePageSelection"
    /\ \E i, j \in DOMAIN pageSelections :
           pageSelections[i].selected /\ ~pageSelections[j].selected

----------------------------------------------------------------------------
(* Claims about the request (Spec). *)

RECURSIVE ClaimedPages(_, _)
ClaimedPages(pages, texts) ==
    IF pages = <<>> THEN ""
    ELSE "Page " \o ToString(Head(pages)) \o ": " \o Str(Head(texts))
         \o (IF Len(pages) > 1
             THEN "\n\n" \o ClaimedPages(Tail(pages), Tail(texts)) ELSE "")

\* C8 as claimed: the prompt sent is 'Please summarize the following text. ',
\* then 'Additional instructions: <instructions>' when there are any, then
\* '\n\nText to summarize: ', then the pages as 'Page <n>: <text>' joined by
\* '\n\n'.
C8_PromptAsClaimed ==
    \A r \in reqs :
        r.pc = "net" =>
            r.call.prompt =
                "Please summarize the following text. "
                \o (IF r.instr # "" THEN "Additional instructions: " \o r.instr
                    ELSE "")
                \o "\n\nText to summarize: " \o ClaimedPages(r.pages, r.texts)

RECURSIVE SentPages(_, _)
SentPages(pages, texts) ==
    IF pages = <<>> THEN ""
    ELSE "Page " \o ToString(Head(pages)) \o ":\n" \o Str(Head(texts))
         \o (IF Len(pages) > 1
             THEN "\n\n" \o SentPages(Tail(pages), Tail(texts)) ELSE "")

Analyze ==
    " of a document. Please analyze the content, maintain the logical flow between pages, and provide a comprehensive summary that captures the main ideas and their relationships.\n\n"

\* C8 as amended: the prompt sent is 'Please provide a coherent summary of
\* the following page[s] from an article. ', then
\* 'Additional instructions: <instructions>\n\n' when there are any, then
\* '\n\nThe content is from <k> page[s] of a document. Please analyze ...
\* relationships.\n\n', then the pages as 'Page <n>:\n<text>' joined by
\* '\n\n'; for pages 1 and 3 ('Hello', 'World') of a 3-page document and no
\* instructions it is the text written out below.
C8_PromptSent ==
    \A r \in reqs :
        r.pc = "net" =>
            /\ r.call.prompt =
                   "Please provide a coherent summary of the following page"
                   \o (IF Len(r.pages) > 1 THEN "s" ELSE "")
                   \o " from an article. "
                   \o (IF r.instr # ""
                       THEN "Additional instructions: " \o r.instr \o "\n\n" ELSE "")
                   \o "\n\nThe content is from " \o ToString(Len(r.pages)) \o " page"
                   \o (IF Len(r.pages) > 1 THEN "s" ELSE "")
                   \o Analyze \o SentPages(r.pages, r.texts)
            /\ (r.file.doc = 1 /\ r.pages = <<1, 3>> /\ r.instr = "") =>
                   r.call.prompt =
                       "Please provide a coherent summary of the following pages from an article. \n\nThe content is from 2 pages"
                       \o Analyze \o "Page 1:\nHello\n\nPage 3:\nWorld"

\* The call for pages 1 and 3 of the 3-page document, without instructions,
\* is out to provider B.
C8_Witness ==
    \E r \in reqs :
        /\ r.pc = "net"
        /\ r.file.doc = 1 /\ r.pages = <<1, 3>>
        /\ r.instr = ""
        /\ r.call.provider = "openai"
        /\ r.texts = <<Hello, World>>

Blank(t) == \A k \in 1..Len(t) : t[k] \in Whitespace

\* C9: in a request, performOCR is called for a selected page only when the
\* page's text (its items joined by single spaces) is blank; a page whose
\* text has been obtained went through performOCR exactly when its text is
\* blank, and then carries the recognised text, otherwise its own text
\* unchanged; and the pages of a request are the pages selected at the
\* click, no others.
C9_OcrForBlankPages ==
    /\ [](\A r \in reqs : \A i \in DOMAIN r.tasks :
             r.pages[i] <= Len(DocLib[r.file.doc].pages) =>
                 LET pageText == Join(DocLib[r.file.doc].pages[r.pages[i]], <<" ">>)
                 IN  /\ (i \in r.ocr \/ r.tasks[i] \in {"render", "ocr"}) =>
                            Blank(pageText)
                     /\ r.tasks[i] = "done" =>
                            /\ i \in r.ocr <=> Blank(pageText)
                            /\ r.texts[i] = IF Blank(pageText) THEN Scanned
                                            ELSE pageText)
    /\ [][(event'.op = "summarizePDF" /\ reqs' # reqs) =>
             \E r \in reqs' \ reqs :
                 /\ DOMAIN r.tasks = DOMAIN r.pages
                 /\ \A p \in DOMAIN pageSelections :
                        pageSelections[p].selected <=>
                            \E i \in DOMAIN r.pages :
                                r.pages[i] = pageSelections[p].pageNum
                 /\ \A i \in DOMAIN r.pages :
                        \E p \in DOMAIN pageSelections :
                            pageSelections[p].pageNum = r.pages[i]]_vars

\* A call is out for a page that went through performOCR and one that did
\* not.
C9_Witness ==
    \E r \in reqs :
        /\ r.pc = "net"
        /\ r.ocr # {}
        /\ r.ocr # DOMAIN r.tasks

----------------------------------------------------------------------------
(* Claims about formatSummary (SpecFormat). *)

\* A label 'Paragraf <digits>:' with n digits starts at position i of t.
LabelAt(t, i, n) ==
    /\ i + Len(PARAGRAF) + n <= Len(t)
    /\ \A k \in 1..Len(PARAGRAF) : t[i + k - 1] = PARAGRAF[k]
    /\ \A k \in 1..n : t[i + Len(PARAGRAF) + k - 1] \in Digits
    /\ t[i + Len(PARAGRAF) + n] = ":"

HasLabel(t) == \E i \in 1..Len(t), n \in 1..Len(t) : LabelAt(t, i, n)
HiThere == <<"H", "i", " ", "t", "h", "e", "r", "e">>

\* C10: whatever the input text, the text formatSummary returns contains no
\* substring 'Paragraf <digits>:', and '**Paragraf 1:** Hi there' yields
\* 'Hi there'.
C10_NoLabelInResult ==
    fmtOut # <<>> =>
        /\ ~HasLabel(fmtOut[1])
        /\ fmtIn = <<Example>> => fmtOut[1] = HiThere

\* t is made of segments with no whitespace at either end, none empty, any
\* two neighbours separated by exactly one blank line.
Segmented(t) ==
    t # <<>> =>
        /\ t[1] \notin Whitespace /\ t[Len(t)] \notin Whitespace
        /\ \A i \in 2..(Len(t) - 1) :
               t[i] = "\n" =>
                   \/ t[i - 1] = "\n" /\ t[i + 1] \notin Whitespace
                   \/ t[i + 1] = "\n" /\ t[i - 1] \notin Whitespace

\* C11: for every text x with no 'Paragraf <digits>:' in it,
\* formatSummary(formatSummary(x)) = formatSummary(x), and the result has no
\* empty segment, no segment with whitespace at either end, and exactly one
\* blank line between segments.
C11_CleanTextFixedPoint ==
    (fmtOut # <<>> /\ ~HasLabel(Flatten(fmtIn))) =>
        /\ Segmented(fmtOut[1])
        /\ Len(fmtOut) = 2 => fmtOut[2] = fmtOut[1]

\* A text without label that formatSummary changes into two segments has
\* been formatted twice.
C11_Witness ==
    /\ Len(fmtOut) = 2
    /\ ~HasLabel(Flatten(fmtIn))
    /\ fmtOut[1] # Flatten(fmtIn)
    /\ \E i \in 1..Len(fmtOut[1]) : fmtOut[1][i] = "\n"

----------------------------------------------------------------------------
(* Claims about the course of a request (Spec, SpecRetry). *)

\* Run r is under way: summarizePDF has not returned from it.
Live(r) == r.pc \in {"load", "extract", "net"}

\* Run r is under way and this step ends it.
Ends(r) == Live(r) /\ \A q \in reqs' : q.rid = r.rid => ~Live(q)

\* C12: whatever ends a request (a parse, render or OCR failure, a network
\* failure, a non-success response, a malformed response body, an error
\* whose body is not valid JSON), the step that ends it shows a
\* notification.
C12_EveryEndNotified ==
    [][\A r \in reqs : Ends(r) => event'.toast.title # "none"]_vars

\* This step is the failure of a page of run r, which was waiting for the
\* texts of its pages.
PageFails(r) ==
    /\ r.pc = "extract"
    /\ event'.op = "extract"
    /\ \/ \A q \in reqs' : q.rid # r.rid
       \/ \E q \in reqs' :
              q.rid = r.rid /\ \E i \in DOMAIN q.tasks : q.tasks[i] = "fail"

\* C13: when the extraction, rendering or OCR of one selected page fails,
\* the request ends there with the 'Error' notification, whatever the state
\* of its other pages; it issues no call then or later, and neither that
\* step nor a later step of its other pages changes the summary.
C13_AllOrNothing ==
    /\ [](\A r \in reqs :
             (\E i \in DOMAIN r.tasks : r.tasks[i] = "fail") =>
                 r.pc = "aborted" /\ r.call.prompt = "")
    /\ [][\A r \in reqs :
             /\ PageFails(r) =>
                    /\ Ends(r)
                    /\ summary' = summary
                    /\ ~loading'
                    /\ event'.toast.title = "Error"
             /\ r.pc = "aborted" =>
                    /\ \A q \in reqs' : q.rid = r.rid => q.pc = "aborted"
                    /\ r \notin reqs' => summary' = summary]_vars

\* A request has ended on the failure of one page while another page is
\* done and a third is still being extracted.
C13_Witness ==
    \E r \in reqs :
        /\ r.pc = "aborted"
        /\ \E i, j, k \in DOMAIN r.tasks :
               /\ r.tasks[i] = "fail"
               /\ r.tasks[j] = "done"
               /\ r.tasks[k] \in {"get", "render", "ocr"}

\* C14: a request issues its call once, in the step in which the text of
\* its last page arrives, every page being done; once the call is out the
\* request only waits for the answer and ends with it, whatever the answer;
\* and a request starts only with a click on the button.
C14_OneCallNoRetry ==
    /\ [](\A r, q \in reqs : r.rid = q.rid => r = q)
    /\ [][/\ \A q \in reqs' :
                /\ (q.pc = "net" /\ q \notin reqs) =>
                       /\ event'.op = "extract"
                       /\ \A i \in DOMAIN q.tasks : q.tasks[i] = "done"
                       /\ \E r \in reqs :
                              r.rid = q.rid /\ r.pc = "extract" /\ r.call.prompt = ""
                /\ (\A r \in reqs : r.rid # q.rid) =>
                       /\ event'.op = "summarizePDF"
                       /\ q.pc = "load" /\ q.call.prompt = ""
                       /\ q.rid > runs
          /\ \A r \in reqs :
                r.pc = "net" =>
                    \/ r \in reqs'
                    \/ /\ \A q \in reqs' : q.rid # r.rid
                       /\ event'.op \in {"generateContent_settled", "fetch_settled"}
          /\ event'.op \in {"generateContent_settled", "fetch_settled"} =>
                \E r \in reqs : r.pc = "net" /\ reqs' = reqs \ {r}]_vars

\* The call of a later request is out after an earlier request ended
\* without a summary.
C14_Witness ==
    /\ summary = <<>>
    /\ \E r \in reqs : r.rid > 1 /\ r.pc = "net"

----------------------------------------------------------------------------
(* Claims about the settings and the upload (Spec, SpecRace). *)

\* C15: the values kept in localStorage are created or changed only by
\* "Save Settings" (not by mounting or opening the dialog, by choosing a
\* provider or a model in it, by cancelling, or by a request), and no step
\* removes one.
C15_OnlySaveWrites ==
    [][/\ storage' # storage => event'.op = "handleSave"
       /\ \A k \in DOMAIN storage : storage[k] # <<>> => storage'[k] # <<>>]_vars

\* C16: a drop is either taken, and then the file is a PDF, or rejected
\* with 'Invalid file type', and then the current file stays, no load
\* starts and the requests, the summary and the selections are untouched;
\* no file of another type is ever current or being loaded.
C16_NonPdfRejected ==
    [][/\ event'.op = "onDrop" =>
             IF event'.toast.title = "none"
             THEN file' # file /\ file'.type = "application/pdf"
             ELSE /\ event'.toast.title = "Invalid file type"
                  /\ UNCHANGED <<file, inits, reqs, loading, summary,
                                 totalPages, pageSelections>>
       /\ \A f \in inits' \cup {file'} : f.type \in {"none", "application/pdf"}]_vars

\* A drop has been rejected while a document is current and a request on it
\* is under way.
C16_Witness ==
    /\ event.op = "onDrop"
    /\ event.toast.title = "Invalid file type"
    /\ file # NoFile
    /\ \E r \in reqs : r.pc = "net"

----------------------------------------------------------------------------
(* Claims about loading (Spec, SpecRetry). *)

\* C17: the step that leaves the Summarizing state (loading goes from true
\* to false) leaves the page selections as they are and either shows
\* 'Success' with the formatted answer as the summary, or surfaces the
\* error or the missing key in a notification and leaves the summary as it
\* is.
C17_SummarizingLeft ==
    [][(loading /\ ~loading') =>
          /\ pageSelections' = pageSelections
          /\ IF event'.toast.title = "Success"
             THEN \E raw \in RawSummaries : summary' = formatSummary(raw)
             ELSE /\ event'.toast.title \in
                         {"Error", "API Quota Exceeded", "No API Key Found"}
                  /\ summary' = summary]_vars

====
